---- MODULE Spec2Model ----
(***************************************************************************)
(* Model of scripts/export_salsamenteria_reviews_csv.py: the COPY-block    *)
(* reader, the business / location resolvers, the text helpers and the     *)
(* streaming export of reviews to one CSV per location.                    *)
(*                                                                         *)
(* A Python string is modelled as a sequence of tokens.  The characters    *)
(* the code inspects one by one (backslash, TAB, newline, carriage return, *)
(* space, comma, parentheses, the letters after a backslash, digits) are   *)
(* tokens of their own; a longer token ("hello", "COPY", "public.") stands *)
(* for a run of characters none of which the code inspects on its own.     *)
(***************************************************************************)
EXTENDS Integers, Sequences, FiniteSets, TLC

VARIABLES
    arg,        \* the argument of the function under call (text helpers, resolvers)
    ret,        \* what the call returned or how it failed
    file,       \* the lines of the input fragment (each a sequence of tokens);
                \* export_reviews: the lines read from it so far
    expected_table, \* iter_copy_rows: the table asked for
    pos,        \* iter_copy_rows: number of lines consumed from the file
    in_copy,    \* iter_copy_rows / export_reviews: inside the block
    cols_count, \* iter_copy_rows: declared column count (0 stands for None)
    yielded,    \* iter_copy_rows: the rows yielded so far
    status,     \* the position of the running function / how it ended
    business_id,          \* export_reviews: parameter
    locations,            \* export_reviews: parameter (list of Location)
    normalize_whitespace, \* export_reviews: parameter
    keep_newlines,        \* export_reviews: parameter
    handles,    \* every output file opened so far: its rows, open or closed
    writers,    \* open_writers' dict: location id -> index of the handle
    counts,     \* export_reviews: location id -> rows written
    line_no,    \* export_reviews: 1-based number of the line being read
    exc,        \* the exception raised, pending or propagated
    report      \* what export_reviews prints on normal completion

exportVars ==
    <<business_id, locations, normalize_whitespace, keep_newlines, handles, writers,
      counts, line_no, exc, report>>

vars ==
    <<arg, ret, file, expected_table, pos, in_copy, cols_count, yielded, status,
      exportVars>>

-----------------------------------------------------------------------------
(* Bounds of the model *)

MaxTextLen == 4
MaxRun == 3

-----------------------------------------------------------------------------
(* Characters *)

BS == "\\"
TAB == "\t"
NL == "\n"
CR == "\r"
SP == " "

NoRet == [fn |-> "none", keep |-> FALSE, value |-> <<>>]

NoExc == [kind |-> "none", line |-> 0]

NoReport == [total |-> 0, lines |-> <<>>]

(* the variables of export_reviews while another function is under call *)
IdleExport ==
    /\ business_id = 0
    /\ locations = <<>>
    /\ normalize_whitespace = FALSE
    /\ keep_newlines = FALSE
    /\ handles = <<>>
    /\ writers = <<>>
    /\ counts = <<>>
    /\ line_no = 0
    /\ exc = NoExc
    /\ report = NoReport

-----------------------------------------------------------------------------
(* str.replace(old, new): left to right, non-overlapping *)

RECURSIVE Replace(_, _, _)
Replace(s, old, new) ==
    IF Len(s) < Len(old) THEN s
    ELSE IF SubSeq(s, 1, Len(old)) = old
         THEN new \o Replace(SubSeq(s, Len(old) + 1, Len(s)), old, new)
         ELSE <<Head(s)>> \o Replace(Tail(s), old, new)

(* re.sub(cls+, new): every maximal run of tokens of cls becomes new *)
RECURSIVE SubRuns(_, _, _)
SubRuns(s, cls, new) ==
    IF s = <<>> THEN <<>>
    ELSE IF Head(s) \in cls
         THEN IF Len(s) > 1 /\ s[2] \in cls
              THEN SubRuns(Tail(s), cls, new)
              ELSE new \o SubRuns(Tail(s), cls, new)
         ELSE <<Head(s)>> \o SubRuns(Tail(s), cls, new)

Whitespace == {SP, TAB, NL, CR}

RECURSIVE LStrip(_)
LStrip(s) == IF s # <<>> /\ Head(s) \in Whitespace THEN LStrip(Tail(s)) ELSE s

RECURSIVE RStrip(_)
RStrip(s) ==
    IF s # <<>> /\ s[Len(s)] \in Whitespace THEN RStrip(SubSeq(s, 1, Len(s) - 1)) ELSE s

Strip(s) == RStrip(LStrip(s))

decode_copy_text(s) ==
    LET s1 == Replace(s, <<BS, BS>>, <<BS>>)
        s2 == Replace(s1, <<BS, "t">>, <<TAB>>)
        s3 == Replace(s2, <<BS, "n">>, <<NL>>)
        s4 == Replace(s3, <<BS, "r">>, <<CR>>)
    IN  s4

normalize_text_NoStrip(s, keep) ==
    LET s1 == Replace(Replace(s, <<CR, NL>>, <<NL>>), <<CR>>, <<NL>>)
        s2 == SubRuns(s1, {SP, TAB}, <<SP>>)
        s3 == SubRuns(s2, {NL}, <<NL>>)
    IN  IF ~keep THEN Replace(s3, <<NL>>, <<BS, "n">>) ELSE s3

normalize_text(s, keep) ==
    LET s1 == Replace(Replace(s, <<CR, NL>>, <<NL>>), <<CR>>, <<NL>>)
        s2 == SubRuns(s1, {SP, TAB}, <<SP>>)
        s3 == SubRuns(s2, {NL}, <<NL>>)
        s4 == Strip(s3)
    IN  IF ~keep THEN Replace(s4, <<NL>>, <<BS, "n">>) ELSE s4

-----------------------------------------------------------------------------
(* The text helpers applied to bounded inputs *)

RECURSIVE SeqsUpTo(_, _)
SeqsUpTo(S, n) ==
    IF n = 0 THEN {<<>>}
    ELSE LET shorter == SeqsUpTo(S, n - 1)
         IN  shorter \cup {Append(s, x) : s \in {t \in shorter : Len(t) = n - 1}, x \in S}

RECURSIVE Rep(_, _)
Rep(x, n) == IF n = 0 THEN <<>> ELSE <<x>> \o Rep(x, n - 1)

EscapeAlphabet == {BS, "t", "n", "r", "a"}

SpecExample == <<"a", BS, "t", "b", BS, BS, "c", BS, "n", "d">>

DecodeInputs == SeqsUpTo(EscapeAlphabet, MaxTextLen) \cup {SpecExample}

TwoWords(i, j, k) == <<"hello">> \o Rep(SP, i) \o Rep(NL, j) \o <<"world">> \o Rep(SP, k)

NormalizeInputs == {TwoWords(i, j, k) : i \in 1..MaxRun, j \in 1..MaxRun, k \in 1..MaxRun}

IdleReader ==
    /\ file = <<>>
    /\ expected_table = <<>>
    /\ pos = 0
    /\ in_copy = FALSE
    /\ cols_count = 0
    /\ yielded = <<>>

TextInit ==
    /\ arg \in DecodeInputs \cup NormalizeInputs
    /\ ret = NoRet
    /\ status = "start"
    /\ IdleReader
    /\ IdleExport

CallDecode ==
    /\ status = "start"
    /\ ret' = [fn |-> "decode_copy_text", keep |-> FALSE, value |-> decode_copy_text(arg)]
    /\ status' = "returned"
    /\ UNCHANGED <<arg, file, expected_table, pos, in_copy, cols_count, yielded, exportVars>>

CallNormalize ==
    /\ status = "start"
    /\ \E k \in BOOLEAN :
          ret' = [fn |-> "normalize_text", keep |-> k, value |-> normalize_text(arg, k)]
    /\ status' = "returned"
    /\ UNCHANGED <<arg, file, expected_table, pos, in_copy, cols_count, yielded, exportVars>>

TextNext == CallDecode \/ CallNormalize

SpecText == TextInit /\ [][TextNext]_vars

-----------------------------------------------------------------------------
(* C9: decode_copy_text agrees with a decoder that reads the field once from
   left to right and translates each of the four escape sequences exactly
   once; a field with no escape sequence is returned unchanged; the literal
   a\tb\\c\nd decodes to a TAB b backslash c NEWLINE d. *)

Unescaped(c) ==
    CASE c = BS  -> BS
      [] c = "t" -> TAB
      [] c = "n" -> NL
      [] c = "r" -> CR

RECURSIVE ReferenceDecode(_)
ReferenceDecode(s) ==
    IF s = <<>> THEN <<>>
    ELSE IF Len(s) >= 2 /\ s[1] = BS /\ s[2] \in {BS, "t", "n", "r"}
         THEN <<Unescaped(s[2])>> \o ReferenceDecode(SubSeq(s, 3, Len(s)))
         ELSE <<Head(s)>> \o ReferenceDecode(Tail(s))

HasEscape(s) ==
    \E i \in 1..(Len(s) - 1) : s[i] = BS /\ s[i + 1] \in {BS, "t", "n", "r"}

C9_DecodeMatchesReference ==
    ret.fn = "decode_copy_text" =>
        /\ ret.value = ReferenceDecode(arg)
        /\ (~HasEscape(arg) => ret.value = arg)
        /\ (arg = SpecExample =>
              ret.value = <<"a", TAB, "b", BS, "c", NL, "d">>)

-----------------------------------------------------------------------------
(* C10 as stated: a word, spaces, newlines, a word, trailing spaces normalize
   to the two words separated by exactly one newline marker and nothing
   else. *)

NewlineMarker(keep) == IF keep THEN <<NL>> ELSE <<BS, "n">>

C10_Original ==
    (ret.fn = "normalize_text" /\ arg \in NormalizeInputs) =>
        ret.value = <<"hello">> \o NewlineMarker(ret.keep) \o <<"world">>

(* C10 amended: the run of spaces before the newlines is collapsed to one
   space, not removed, so the two words are separated by one space followed
   by exactly one newline marker; trailing whitespace is trimmed. *)
C10_SpaceThenMarker ==
    (ret.fn = "normalize_text" /\ arg \in NormalizeInputs) =>
        ret.value = <<"hello", SP>> \o NewlineMarker(ret.keep) \o <<"world">>

C10_Witness ==
    /\ ret.fn = "normalize_text"
    /\ ~ret.keep
    /\ arg = TwoWords(3, 3, 2)
    /\ ret.value = <<"hello", SP, BS, "n", "world">>

-----------------------------------------------------------------------------
(* iter_copy_rows: the COPY-block reader *)

MaxLines == 4

(* the tokens made of [a-z0-9_] only *)
NameTokens ==
    {"business_business", "business_location", "reviews_review", "_old", "c"}

(* index just after the maximal run of tokens of S that starts at i *)
RECURSIVE RunEnd(_, _, _)
RunEnd(line, i, S) ==
    IF i <= Len(line) /\ line[i] \in S THEN RunEnd(line, i + 1, S) ELSE i

(* index just before the maximal run of tokens of S that ends at i *)
RECURSIVE RunStart(_, _, _)
RunStart(line, i, S) ==
    IF i >= 1 /\ line[i] \in S THEN RunStart(line, i - 1, S) ELSE i

At(line, i) == IF i >= 1 /\ i <= Len(line) THEN line[i] ELSE "<none>"

NoMatch == [ok |-> FALSE, table |-> <<>>, cols |-> <<>>]

(* COPY_START_RE.match(line):
   ^COPY\s+public\.([a-z0-9_]+)\s+\((.+)\)\s+FROM\s+stdin;\s*$ *)
COPY_START_RE(line) ==
    LET ws    == {SP, TAB}                      \* \s, among the tokens of a line
        i1    == RunEnd(line, 2, ws)            \* after COPY\s+
        i2    == RunEnd(line, i1 + 1, NameTokens) \* after public\.[a-z0-9_]+
        i3    == RunEnd(line, i2, ws)           \* after \s+ : the "("
        e     == RunStart(line, Len(line), ws)  \* before \s*$ : stdin;
        f     == RunStart(line, e - 1, ws)      \* FROM
        j     == RunStart(line, f - 1, ws)      \* the ")"
    IN  IF /\ At(line, 1) = "COPY"
           /\ i1 > 2
           /\ At(line, i1) = "public."
           /\ i2 > i1 + 1
           /\ i3 > i2
           /\ At(line, i3) = "("
           /\ At(line, e) = "stdin;"
           /\ f < e - 1
           /\ At(line, f) = "FROM"
           /\ j < f - 1
           /\ At(line, j) = ")"
           /\ j > i3 + 1
        THEN [ok |-> TRUE, table |-> SubSeq(line, i1 + 1, i2 - 1),
              cols |-> SubSeq(line, i3 + 1, j - 1)]
        ELSE NoMatch

(* str.split(sep) for a one-character separator *)
RECURSIVE SplitFrom(_, _, _, _)
SplitFrom(s, sep, i, cur) ==
    IF i > Len(s) THEN <<cur>>
    ELSE IF s[i] = sep
         THEN <<cur>> \o SplitFrom(s, sep, i + 1, <<>>)
         ELSE SplitFrom(s, sep, i + 1, Append(cur, s[i]))

Split(s, sep) == SplitFrom(s, sep, 1, <<>>)

Terminator == <<BS, ".">>

(* One iteration of the loop of iter_copy_rows over the next line; st holds
   the generator's locals and what it has yielded. *)
IterStep_NoReturn(st, table, line) ==
    IF ~st.in_copy
    THEN LET m == COPY_START_RE(line)
         IN  IF ~m.ok THEN st
             ELSE IF m.table # table THEN st
             ELSE [st EXCEPT !.cols_count = Len(Split(m.cols, ",")),
                             !.in_copy = TRUE]
    ELSE IF line = Terminator THEN [st EXCEPT !.in_copy = FALSE]
    ELSE LET parts == Split(line, TAB)
         IN  IF st.cols_count # 0 /\ Len(parts) # st.cols_count
             THEN [st EXCEPT !.status = "die_cols"]
             ELSE [st EXCEPT !.rows = Append(@, parts)]

IterStep_PrefixMatch(st, table, line) ==
    IF ~st.in_copy
    THEN LET m == COPY_START_RE(line)
         IN  IF ~m.ok THEN st
             ELSE IF Len(m.table) < Len(table) \/ SubSeq(m.table, 1, Len(table)) # table
             THEN st
             ELSE [st EXCEPT !.cols_count = Len(Split(m.cols, ",")),
                             !.in_copy = TRUE]
    ELSE IF line = Terminator THEN [st EXCEPT !.status = "returned"]
    ELSE LET parts == Split(line, TAB)
         IN  IF st.cols_count # 0 /\ Len(parts) # st.cols_count
             THEN [st EXCEPT !.status = "die_cols"]
             ELSE [st EXCEPT !.rows = Append(@, parts)]

IterStep(st, table, line) ==
    IF ~st.in_copy
    THEN LET m == COPY_START_RE(line)
         IN  IF ~m.ok THEN st
             ELSE IF m.table # table THEN st
             ELSE [st EXCEPT !.cols_count = Len(Split(m.cols, ",")),
                             !.in_copy = TRUE]
    ELSE IF line = Terminator THEN [st EXCEPT !.status = "returned"]
    ELSE LET parts == Split(line, TAB)
         IN  IF st.cols_count # 0 /\ Len(parts) # st.cols_count
             THEN [st EXCEPT !.status = "die_cols"]
             ELSE [st EXCEPT !.rows = Append(@, parts)]

(* The end of the file: the two die calls after the loop *)
IterEOF_Silent(st) ==
    [st EXCEPT !.status = IF ~st.in_copy THEN "die_notfound" ELSE "returned"]

IterEOF(st) ==
    [st EXCEPT !.status = IF ~st.in_copy THEN "die_notfound" ELSE "die_unterminated"]

IterStart == [in_copy |-> FALSE, cols_count |-> 0, rows |-> <<>>, status |-> "reading"]

(* lines of the fragments *)
RECURSIVE ColList(_)
ColList(n) == IF n = 1 THEN <<"c">> ELSE ColList(n - 1) \o <<",", SP, "c">>

Hdr(table, n) ==
    <<"COPY", SP, "public.">> \o table \o <<SP, "(">> \o ColList(n)
        \o <<")", SP, "FROM", SP, "stdin;">>

RECURSIVE Join(_, _)
Join(parts, sep) ==
    IF Len(parts) = 1 THEN parts[1]
    ELSE parts[1] \o <<sep>> \o Join(Tail(parts), sep)

LocationTable == <<"business_location">>
OtherTable == <<"business_location", "_old">>
SuffixTable == <<"_old">>

ReaderLines ==
    {Hdr(LocationTable, 2), Hdr(OtherTable, 1),
     <<"a", TAB, "b">>, <<"a">>, Terminator}

ReaderInit ==
    /\ file \in SeqsUpTo(ReaderLines, MaxLines)
    /\ expected_table \in {LocationTable, OtherTable, SuffixTable}
    /\ pos = 0
    /\ in_copy = FALSE
    /\ cols_count = 0
    /\ yielded = <<>>
    /\ status = "reading"
    /\ arg = <<>>
    /\ ret = NoRet
    /\ IdleExport

ReaderState ==
    [in_copy |-> in_copy, cols_count |-> cols_count, rows |-> yielded, status |-> status]

SetReaderState(st) ==
    /\ in_copy' = st.in_copy
    /\ cols_count' = st.cols_count
    /\ yielded' = st.rows
    /\ status' = st.status

(* for raw in f: ... one line *)
ReadLine ==
    /\ status = "reading"
    /\ pos < Len(file)
    /\ pos' = pos + 1
    /\ SetReaderState(IterStep(ReaderState, expected_table, file[pos + 1]))
    /\ UNCHANGED <<arg, ret, file, expected_table, exportVars>>

(* the loop is exhausted *)
ReadEOF ==
    /\ status = "reading"
    /\ pos = Len(file)
    /\ SetReaderState(IterEOF(ReaderState))
    /\ UNCHANGED <<arg, ret, file, expected_table, pos, exportVars>>

ReaderNext == ReadLine \/ ReadEOF

SpecReader == ReaderInit /\ [][ReaderNext]_vars

(* the whole run of the generator, as its callers consume it *)
RECURSIVE IterRunFrom(_, _, _, _)
IterRunFrom(st, f, table, i) ==
    IF st.status # "reading" THEN st
    ELSE IF i > Len(f) THEN IterEOF(st)
    ELSE IterRunFrom(IterStep(st, table, f[i]), f, table, i + 1)

iter_copy_rows(f, table) == IterRunFrom(IterStart, f, table, 1)

-----------------------------------------------------------------------------
(* What the claims about the reader speak of, stated on the file itself *)

NumFields(line) == Cardinality({i \in 1..Len(line) : line[i] = TAB}) + 1

(* the number of columns a header line of that length for the table names *)
HdrCols(line, table) == (Len(line) - Len(Hdr(table, 1))) \div Len(<<",", SP, "c">>) + 1

IsHeaderFor(line, table) ==
    /\ Len(line) > 0
    /\ line[1] = "COPY"
    /\ HdrCols(line, table) >= 1
    /\ line = Hdr(table, HdrCols(line, table))

DeclaredCols(line, table) == HdrCols(line, table)

HeaderIdx == {h \in 1..Len(file) : IsHeaderFor(file[h], expected_table)}

FirstHeader == CHOOSE h \in HeaderIdx : \A g \in HeaderIdx : h <= g

TermIdx == {t \in 1..Len(file) : t > FirstHeader /\ file[t] = Terminator}

FirstTerm == CHOOSE t \in TermIdx : \A u \in TermIdx : t <= u

WellFormedBlock ==
    /\ HeaderIdx # {}
    /\ TermIdx # {}
    /\ \A k \in (FirstHeader + 1)..(FirstTerm - 1) :
          NumFields(file[k]) = DeclaredCols(file[FirstHeader], expected_table)

ReaderDone == status # "reading"

(* C3: on a file whose first block for the expected table is well formed,
   the reader yields exactly the data lines between the header and the first
   terminator after it, in file order, each split into the declared number of
   fields, reads nothing after that terminator and ends without error. *)
C3_YieldsExactlyTheBlock ==
    WellFormedBlock =>
        /\ pos <= FirstTerm
        /\ Len(yielded) <= FirstTerm - FirstHeader - 1
        /\ \A k \in 1..Len(yielded) :
              /\ Len(yielded[k]) = DeclaredCols(file[FirstHeader], expected_table)
              /\ Join(yielded[k], TAB) = file[FirstHeader + k]
        /\ status \in {"reading", "returned"}
        /\ (ReaderDone =>
              /\ status = "returned"
              /\ pos = FirstTerm
              /\ Len(yielded) = FirstTerm - FirstHeader - 1)

C3_Witness ==
    /\ WellFormedBlock
    /\ status = "returned"
    /\ Len(yielded) = 1
    /\ FirstTerm < Len(file)
    /\ IsHeaderFor(file[Len(file)], expected_table)

(* C4: the reader never ends normally at end of file: no header seen gives
   the block-not-found error, a header without terminator gives the
   did-not-terminate error; a row whose field count differs from the declared
   column count is a fatal error, neither yielded nor skipped. *)
C4_EndOfFileAndShapeAreFatal ==
    /\ (status = "returned" => (pos >= 1 /\ file[pos] = Terminator))
    /\ ((ReaderDone /\ HeaderIdx = {}) => status = "die_notfound")
    /\ ((ReaderDone /\ HeaderIdx # {} /\ TermIdx = {}) =>
            status \in {"die_unterminated", "die_cols"})
    /\ ((ReaderDone /\ HeaderIdx # {}
            /\ \A k \in (FirstHeader + 1)..Len(file) :
                  /\ file[k] # Terminator
                  /\ NumFields(file[k]) = DeclaredCols(file[FirstHeader], expected_table))
          => status = "die_unterminated")
    /\ \A k \in 1..Len(file) :
          (/\ HeaderIdx # {}
           /\ k > FirstHeader
           /\ file[k] # Terminator
           /\ NumFields(file[k]) # DeclaredCols(file[FirstHeader], expected_table)
           /\ \A m \in (FirstHeader + 1)..(k - 1) :
                 /\ file[m] # Terminator
                 /\ NumFields(file[m]) = DeclaredCols(file[FirstHeader], expected_table))
          => /\ pos <= k
             /\ Len(yielded) <= k - FirstHeader - 1
             /\ (ReaderDone => (status = "die_cols" /\ pos = k))

C4_Witness ==
    /\ status = "die_unterminated"
    /\ pos = Len(file)
    /\ Len(yielded) = 2

-----------------------------------------------------------------------------
(* int(): a decimal numeral over the digits; anything else raises ValueError *)

Digits == {"0", "1", "2", "3", "4", "5", "6", "7", "8", "9"}

DigitVal(t) ==
    CASE t = "0" -> 0 [] t = "1" -> 1 [] t = "2" -> 2 [] t = "3" -> 3 [] t = "4" -> 4
      [] t = "5" -> 5 [] t = "6" -> 6 [] t = "7" -> 7 [] t = "8" -> 8 [] t = "9" -> 9

IsInt(s) == s # <<>> /\ \A i \in 1..Len(s) : s[i] \in Digits

RECURSIVE IntOf(_)
IntOf(s) ==
    IF s = <<>> THEN 0 ELSE 10 * IntOf(SubSeq(s, 1, Len(s) - 1)) + DigitVal(s[Len(s)])

NULL == <<BS, "N">>

-----------------------------------------------------------------------------
(* find_business_id_by_name *)

BusinessTable == <<"business_business">>

(* the for loop over the rows the reader yields: bid = int(row[0]),
   name = decode_copy_text(row[2]), append on equality *)
RECURSIVE BusinessScan(_, _, _, _)
BusinessScan(rows, i, business_name, matches) ==
    IF i > Len(rows) THEN [status |-> "ok", matches |-> matches]
    ELSE LET row == rows[i]
         IN  IF ~IsInt(row[1]) THEN [status |-> "ValueError", matches |-> matches]
             ELSE IF Len(row) < 3 THEN [status |-> "IndexError", matches |-> matches]
             ELSE LET name == decode_copy_text(row[3])
                  IN  BusinessScan(rows, i + 1, business_name,
                        IF name = business_name
                        THEN Append(matches, [id |-> IntOf(row[1]), name |-> name])
                        ELSE matches)

(* The outcome of find_business_id_by_name: an exception raised while the
   rows are consumed comes first, then the reader's own die; the second scan
   of the not-found branch reads the same block and only builds the hint of
   the message. *)
find_business_id_by_name_First(f, business_name) ==
    LET it   == iter_copy_rows(f, BusinessTable)
        scan == BusinessScan(it.rows, 1, business_name, <<>>)
    IN  IF scan.status # "ok" THEN [status |-> scan.status, value |-> <<>>]
        ELSE IF it.status # "returned" THEN [status |-> it.status, value |-> <<>>]
        ELSE IF scan.matches = <<>>
             THEN [status |-> "die_business_not_found", value |-> <<>>]
        ELSE [status |-> "returned", value |-> scan.matches[1]]

find_business_id_by_name(f, business_name) ==
    LET it   == iter_copy_rows(f, BusinessTable)
        scan == BusinessScan(it.rows, 1, business_name, <<>>)
    IN  IF scan.status # "ok" THEN [status |-> scan.status, value |-> <<>>]
        ELSE IF it.status # "returned" THEN [status |-> it.status, value |-> <<>>]
        ELSE IF scan.matches = <<>>
             THEN [status |-> "die_business_not_found", value |-> <<>>]
        ELSE IF Len(scan.matches) > 1
             THEN [status |-> "die_business_multiple",
                   value |-> [k \in 1..Len(scan.matches) |-> scan.matches[k].id]]
        ELSE [status |-> "returned", value |-> scan.matches[1]]

Row(fields) == Join(fields, TAB)

BusinessLines ==
    {Hdr(BusinessTable, 3),
     Row(<< <<"7">>, <<"u">>, <<"Acme">> >>),
     Row(<< <<"8">>, <<"u">>, <<"Acme">> >>),
     Row(<< <<"9">>, <<"u">>, <<"acme">> >>),
     Row(<< <<"5">>, <<"u">>, <<"Acme", BS, "n">> >>),
     Row(<< <<"6">>, <<"u">>, <<"Acme", SP, "Foods">> >>),
     Row(<< <<"4">>, <<"u">> >>),
     Terminator}

BusinessNames == {<<"Acme">>, <<"Acme", NL>>}

IdleReaderVars ==
    /\ expected_table = <<>>
    /\ pos = 0
    /\ in_copy = FALSE
    /\ cols_count = 0
    /\ yielded = <<>>

BusinessInit ==
    /\ file \in SeqsUpTo(BusinessLines, MaxLines)
    /\ arg \in BusinessNames
    /\ ret = NoRet
    /\ status = "start"
    /\ IdleReaderVars
    /\ IdleExport

CallFindBusiness ==
    /\ status = "start"
    /\ LET r == find_business_id_by_name(file, arg)
       IN  /\ ret' = [fn |-> "find_business_id_by_name", keep |-> FALSE, value |-> r.value]
           /\ status' = r.status
    /\ UNCHANGED <<arg, file, expected_table, pos, in_copy, cols_count, yielded, exportVars>>

BusinessNext == CallFindBusiness

SpecBusiness == BusinessInit /\ [][BusinessNext]_vars

(* the block of a table in a file, stated on the file: the lines after the
   first header of the table up to the first terminator after it *)
BlockHeaders(f, table) == {h \in 1..Len(f) : IsHeaderFor(f[h], table)}

BlockStart(f, table) ==
    CHOOSE h \in BlockHeaders(f, table) : \A g \in BlockHeaders(f, table) : h <= g

BlockTerms(f, table) ==
    {t \in 1..Len(f) : t > BlockStart(f, table) /\ f[t] = Terminator}

BlockEnd(f, table) ==
    CHOOSE t \in BlockTerms(f, table) : \A u \in BlockTerms(f, table) : t <= u

BlockReadable(f, table) ==
    /\ BlockHeaders(f, table) # {}
    /\ BlockTerms(f, table) # {}
    /\ \A k \in (BlockStart(f, table) + 1)..(BlockEnd(f, table) - 1) :
          NumFields(f[k]) = DeclaredCols(f[BlockStart(f, table)], table)

BlockRows(f, table) == (BlockStart(f, table) + 1)..(BlockEnd(f, table) - 1)

FieldOf(line, n) == Split(line, TAB)[n]

(* the lines of the businesses block whose decoded name equals the argument *)
NameMatches ==
    {k \in BlockRows(file, BusinessTable) :
        decode_copy_text(FieldOf(file[k], 3)) = arg}

(* C7: find_business_id_by_name returns a Business only when exactly one row
   of the block has a decoded name equal to the name (full string, case
   sensitive), and then that row's id and name; with no such row it fails
   with the not-found error, with two or more it fails with the error that
   lists the ids of all of them. *)
C7_ExactlyOneMatch ==
    ret.fn = "find_business_id_by_name" =>
        /\ (status = "returned" =>
              /\ BlockReadable(file, BusinessTable)
              /\ Cardinality(NameMatches) = 1
              /\ \E k \in NameMatches :
                    /\ ret.value.id = IntOf(FieldOf(file[k], 1))
                    /\ ret.value.name = arg)
        /\ (BlockReadable(file, BusinessTable) =>
              /\ (Cardinality(NameMatches) = 0 => status = "die_business_not_found")
              /\ (Cardinality(NameMatches) = 1 => status = "returned")
              /\ (Cardinality(NameMatches) >= 2 =>
                    /\ status = "die_business_multiple"
                    /\ Len(ret.value) = Cardinality(NameMatches)
                    /\ {ret.value[i] : i \in 1..Len(ret.value)}
                         = {IntOf(FieldOf(file[k], 1)) : k \in NameMatches}))

C7_Witness ==
    /\ ret.fn = "find_business_id_by_name"
    /\ status = "die_business_multiple"
    /\ ret.value = <<8, 7>>

-----------------------------------------------------------------------------
(* load_locations_for_business *)

(* the for loop: lid = int(row[0]), name = decode_copy_text(row[2]),
   bid = int(row[3]), append when bid == wanted *)
RECURSIVE LocationScan(_, _, _, _)
LocationScan(rows, i, wanted, locs) ==
    IF i > Len(rows) THEN [status |-> "ok", locs |-> locs]
    ELSE LET row == rows[i]
         IN  IF ~IsInt(row[1]) THEN [status |-> "ValueError", locs |-> locs]
             ELSE IF Len(row) < 3 THEN [status |-> "IndexError", locs |-> locs]
             ELSE IF Len(row) < 4 THEN [status |-> "IndexError", locs |-> locs]
             ELSE IF ~IsInt(row[4]) THEN [status |-> "ValueError", locs |-> locs]
             ELSE LocationScan(rows, i + 1, wanted,
                    IF IntOf(row[4]) = wanted
                    THEN Append(locs, [id |-> IntOf(row[1]),
                                       name |-> decode_copy_text(row[3]),
                                       business_id |-> IntOf(row[4])])
                    ELSE locs)

(* sorted(locs, key=lambda l: l.id): stable, ascending *)
RECURSIVE InsertById(_, _)
InsertById(sorted, l) ==
    IF sorted = <<>> THEN <<l>>
    ELSE IF sorted[Len(sorted)].id <= l.id THEN Append(sorted, l)
    ELSE Append(InsertById(SubSeq(sorted, 1, Len(sorted) - 1), l), sorted[Len(sorted)])

RECURSIVE SortedById(_)
SortedById(locs) ==
    IF locs = <<>> THEN <<>>
    ELSE InsertById(SortedById(SubSeq(locs, 1, Len(locs) - 1)), locs[Len(locs)])

load_locations_for_business_Unsorted(f, wanted) ==
    LET it   == iter_copy_rows(f, LocationTable)
        scan == LocationScan(it.rows, 1, wanted, <<>>)
    IN  IF scan.status # "ok" THEN [status |-> scan.status, value |-> <<>>]
        ELSE IF it.status # "returned" THEN [status |-> it.status, value |-> <<>>]
        ELSE [status |-> "returned", value |-> scan.locs]

load_locations_for_business(f, wanted) ==
    LET it   == iter_copy_rows(f, LocationTable)
        scan == LocationScan(it.rows, 1, wanted, <<>>)
    IN  IF scan.status # "ok" THEN [status |-> scan.status, value |-> <<>>]
        ELSE IF it.status # "returned" THEN [status |-> it.status, value |-> <<>>]
        ELSE [status |-> "returned", value |-> SortedById(scan.locs)]

LocationLines ==
    {Hdr(LocationTable, 4),
     Row(<< <<"9">>, <<"u">>, <<"Uptown">>, <<"7">> >>),
     Row(<< <<"3">>, <<"u">>, <<"Down", BS, "n", "town">>, <<"7">> >>),
     Row(<< <<"1", "2">>, <<"u">>, <<"Mid">>, <<"7">> >>),
     Row(<< <<"4">>, <<"u">>, <<"Else">>, <<"8">> >>),
     Row(<< <<"5">>, <<"u">>, <<"Nowhere">>, NULL >>),
     Terminator}

BusinessIds == {7, 8}

LocationsInit ==
    /\ file \in SeqsUpTo(LocationLines, MaxLines)
    /\ arg \in BusinessIds
    /\ ret = NoRet
    /\ status = "start"
    /\ IdleReaderVars
    /\ IdleExport

CallLoadLocations ==
    /\ status = "start"
    /\ LET r == load_locations_for_business(file, arg)
       IN  /\ ret' = [fn |-> "load_locations_for_business", keep |-> FALSE,
                      value |-> r.value]
           /\ status' = r.status
    /\ UNCHANGED <<arg, file, expected_table, pos, in_copy, cols_count, yielded, exportVars>>

LocationsNext == CallLoadLocations

SpecLocations == LocationsInit /\ [][LocationsNext]_vars

(* the lines of the locations block owned by the business asked for *)
OwnedRows ==
    {k \in BlockRows(file, LocationTable) :
        /\ IsInt(FieldOf(file[k], 4))
        /\ IntOf(FieldOf(file[k], 4)) = arg}

LocationOfLine(line) ==
    [id |-> IntOf(FieldOf(line, 1)),
     name |-> decode_copy_text(FieldOf(line, 3)),
     business_id |-> arg]

(* C8: load_locations_for_business(b) returns exactly the rows of the
   locations block whose business-id field equals b, each once, as
   Location(id, decoded name, b), in ascending order of location id whatever
   their order in the file; rows of other businesses never appear. *)
C8_OwnedLocationsAscending ==
    (ret.fn = "load_locations_for_business" /\ status = "returned") =>
        /\ Len(ret.value) = Cardinality(OwnedRows)
        /\ \A x \in {LocationOfLine(file[k]) : k \in OwnedRows} :
              Cardinality({i \in 1..Len(ret.value) : ret.value[i] = x})
                = Cardinality({k \in OwnedRows : LocationOfLine(file[k]) = x})
        /\ \A i \in 1..Len(ret.value) : ret.value[i].business_id = arg
        /\ \A i \in 1..(Len(ret.value) - 1) : ret.value[i].id <= ret.value[i + 1].id

C8_Witness ==
    /\ ret.fn = "load_locations_for_business"
    /\ status = "returned"
    /\ Len(ret.value) = 2
    /\ ret.value[1].id = 3
    /\ ret.value[2].id = 12
    /\ FieldOf(file[2], 1) = <<"1", "2">>

-----------------------------------------------------------------------------
(* slugify and the name of an output file *)

MaxNameLen == 2

(* str.lower on the tokens names are made of; the words are runs of letters *)
Lower(t) ==
    CASE t = "A" -> "a"
      [] t = "Down" -> "down"
      [] t = "Uptown" -> "uptown"
      [] OTHER -> t

(* the tokens matched by [a-z0-9] *)
SlugChars == Digits \cup {"a", "down", "town", "uptown"}

(* re.sub(r"[^...]+", new, s): every maximal run of tokens outside cls
   becomes new *)
RECURSIVE SubRunsOutside(_, _, _)
SubRunsOutside(s, cls, new) ==
    IF s = <<>> THEN <<>>
    ELSE IF Head(s) \notin cls
         THEN IF Len(s) > 1 /\ s[2] \notin cls
              THEN SubRunsOutside(Tail(s), cls, new)
              ELSE new \o SubRunsOutside(Tail(s), cls, new)
         ELSE <<Head(s)>> \o SubRunsOutside(Tail(s), cls, new)

(* str.strip(chars) *)
RECURSIVE LStripOf(_, _)
LStripOf(s, chars) ==
    IF s # <<>> /\ Head(s) \in chars THEN LStripOf(Tail(s), chars) ELSE s

RECURSIVE RStripOf(_, _)
RStripOf(s, chars) ==
    IF s # <<>> /\ s[Len(s)] \in chars
    THEN RStripOf(SubSeq(s, 1, Len(s) - 1), chars)
    ELSE s

slugify(s) ==
    LET s1 == [i \in DOMAIN Strip(s) |-> Lower(Strip(s)[i])]
        s2 == SubRunsOutside(s1, SlugChars, <<"_">>)
        s3 == SubRuns(s2, {"_"}, <<"_">>)
        s4 == RStripOf(LStripOf(s3, {"_"}), {"_"})
    IN  IF s4 = <<>> THEN <<"location">> ELSE s4

(* the decimal numeral an f-string makes of a non-negative int *)
DigitOf(d) == CHOOSE t \in Digits : DigitVal(t) = d

RECURSIVE IntStr(_)
IntStr(n) ==
    IF n < 10 THEN <<DigitOf(n)>> ELSE IntStr(n \div 10) \o <<DigitOf(n % 10)>>

filename_NoSeparator(loc) ==
    <<"salsamenteria__loc_">> \o IntStr(loc.id) \o slugify(loc.name) \o <<".csv">>

(* f"salsamenteria__loc_{loc.id}__{slugify(loc.name)}.csv" *)
filename(loc) ==
    <<"salsamenteria__loc_">> \o IntStr(loc.id) \o <<"_", "_">>
        \o slugify(loc.name) \o <<".csv">>

-----------------------------------------------------------------------------
(* open_writers and export_reviews *)

MaxReviewLines == 3

ReviewWidth == 17

FieldNames ==
    <<"location_id", "location_name", "review_uid", "review_date", "rating",
      "source", "author", "title", "text", "url">>

ReviewsTable == <<"reviews_review">>

ReviewsPrefix == <<"COPY", SP, "public.", "reviews_review", SP>>

StartsWith(line, prefix) ==
    Len(line) >= Len(prefix) /\ SubSeq(line, 1, Len(prefix)) = prefix

Range(f) == {f[x] : x \in DOMAIN f}

RECURSIVE SumOver(_, _)
SumOver(f, S) ==
    IF S = {} THEN 0
    ELSE LET x == CHOOSE y \in S : TRUE IN f[x] + SumOver(f, S \ {x})

field_DecodeFirst(parts, i) ==
    LET v == decode_copy_text(parts[i + 1])
    IN  IF v = NULL THEN <<>>
        ELSE IF normalize_whitespace
             THEN normalize_text(v, keep_newlines)
             ELSE v

(* the nested function field(i) of export_reviews; i is the 0-based index *)
field(parts, i) ==
    LET v == parts[i + 1]
    IN  IF v = NULL THEN <<>>
        ELSE IF normalize_whitespace
             THEN normalize_text(decode_copy_text(v), keep_newlines)
             ELSE decode_copy_text(v)

LocById(location_id) ==
    LET last == CHOOSE i \in 1..Len(locations) :
                   /\ locations[i].id = location_id
                   /\ \A j \in (i + 1)..Len(locations) : locations[j].id # location_id
    IN  locations[last]

(* the dict handed to writerow, laid out in the order of the fieldnames *)
CsvRow(parts, location_id) ==
    <<location_id, LocById(location_id).name, field(parts, 1), field(parts, 8),
      field(parts, 6), field(parts, 2), field(parts, 7), field(parts, 3),
      field(parts, 4), field(parts, 5)>>

LocIds == {locations[i].id : i \in 1..Len(locations)}

OpenWriter_NoHeader ==
    /\ status = "open_writers"
    /\ Len(handles) < Len(locations)
    /\ LET loc == locations[Len(handles) + 1]
       IN  /\ handles' = Append(handles, [loc |-> loc.id, path |-> filename(loc),
                                          rows |-> <<>>,
                                          open |-> TRUE, closes |-> 0])
           /\ writers' = [x \in DOMAIN writers \cup {loc.id} |->
                            IF x = loc.id THEN Len(handles) + 1 ELSE writers[x]]
    /\ UNCHANGED <<arg, ret, file, expected_table, pos, in_copy, cols_count, yielded,
                   status, business_id, locations, normalize_whitespace,
                   keep_newlines, counts, line_no, exc, report>>

(* One pass of the loop of open_writers: the file is opened, the header row
   written and the pair stored under the location id (out_dir.mkdir, which
   precedes the loop, opens nothing). *)
OpenWriter ==
    /\ status = "open_writers"
    /\ Len(handles) < Len(locations)
    /\ LET loc == locations[Len(handles) + 1]
       IN  /\ handles' = Append(handles, [loc |-> loc.id, path |-> filename(loc),
                                          rows |-> <<FieldNames>>,
                                          open |-> TRUE, closes |-> 0])
           /\ writers' = [x \in DOMAIN writers \cup {loc.id} |->
                            IF x = loc.id THEN Len(handles) + 1 ELSE writers[x]]
    /\ UNCHANGED <<arg, ret, file, expected_table, pos, in_copy, cols_count, yielded,
                   status, business_id, locations, normalize_whitespace,
                   keep_newlines, counts, line_no, exc, report>>

(* fp.open raises OSError: open_writers has no handler and export_reviews
   calls it before its try statement, so the exception leaves both. *)
OpenFails ==
    /\ status = "open_writers"
    /\ Len(handles) < Len(locations)
    /\ exc' = [kind |-> "OSError", line |-> 0]
    /\ status' = "OSError"
    /\ UNCHANGED <<arg, ret, file, expected_table, pos, in_copy, cols_count, yielded,
                   business_id, locations, normalize_whitespace, keep_newlines,
                   handles, writers, counts, line_no, report>>

(* open_writers returns; counts, in_copy and line_no are initialised and the
   try statement is entered *)
BeginScan ==
    /\ status = "open_writers"
    /\ Len(handles) = Len(locations)
    /\ counts' = [lid \in LocIds |-> 0]
    /\ in_copy' = FALSE
    /\ line_no' = 0
    /\ status' = "scan"
    /\ UNCHANGED <<arg, ret, file, expected_table, pos, cols_count, yielded,
                   business_id, locations, normalize_whitespace, keep_newlines,
                   handles, writers, exc, report>>

WriteRow_NoCount(parts, location_id) ==
    /\ handles' = [handles EXCEPT ![writers[location_id]].rows =
                      Append(@, CsvRow(parts, location_id))]
    /\ counts' = counts

WriteRow_Prepend(parts, location_id) ==
    /\ handles' = [handles EXCEPT ![writers[location_id]].rows =
                      <<Head(@), CsvRow(parts, location_id)>> \o Tail(@)]
    /\ counts' = [counts EXCEPT ![location_id] = @ + 1]

WriteRow(parts, location_id) ==
    /\ handles' = [handles EXCEPT ![writers[location_id]].rows =
                      Append(@, CsvRow(parts, location_id))]
    /\ counts' = [counts EXCEPT ![location_id] = @ + 1]

Raise(kind) ==
    /\ exc' = [kind |-> kind, line |-> line_no + 1]
    /\ status' = "finally"

(* the lines the reviews fragment is made of *)
ReviewRow(uid, text, biz, loc) ==
    Row(<< <<"1">>, uid, <<"g">>, NULL, text, <<"u">>, <<"5">>, <<"a">>, <<"d">>,
           <<"s">>, <<"c">>, biz, loc, NULL, <<"h">>, NULL, NULL >>)

ShortRow(uid, biz, loc) ==
    Row(<< <<"1">>, uid, <<"g">>, NULL, <<"x">>, <<"u">>, <<"5">>, <<"a">>, <<"d">>,
           <<"s">>, <<"c">>, biz, loc, NULL, <<"h">>, NULL >>)

ReviewLines ==
    {Hdr(ReviewsTable, ReviewWidth),
     Terminator,
     ReviewRow(<<"r1">>, <<"good", BS, "n", "food">>, <<"7">>, <<"3">>),
     ReviewRow(<<"r2">>, <<BS, BS, "N">>, <<"7">>, <<"9">>),
     ReviewRow(<<"r3">>, <<"x">>, <<"8">>, <<"3">>),
     ReviewRow(<<"r4">>, <<"x">>, NULL, <<"3">>),
     ReviewRow(<<"r5">>, <<"x">>, <<"7">>, NULL),
     ReviewRow(<<"r6">>, <<"x">>, <<"7">>, <<"5">>),
     ReviewRow(<<"r7">>, <<"x">>, <<"7">>, <<"x">>),
     ShortRow(<<"r8">>, <<"8">>, <<"3">>),
     Row(<< <<"1">>, <<"r9">>, <<BS, BS, "N">>, NULL, NULL, <<BS, BS, "N">>, NULL,
            <<BS, BS, "N">>, NULL, <<"s">>, <<"c">>, <<"7">>, <<"9">>, NULL,
            <<"h">>, NULL, NULL >>)}

(* What the body of the loop does with a line of the block that is not the
   terminator: the width check, then the business and location filters *)
RowAction_NoBusinessFilter(parts) ==
    IF Len(parts) # ReviewWidth THEN "die"
    ELSE IF parts[12] = NULL THEN "skip"
    ELSE IF ~IsInt(parts[12]) THEN "ValueError"
    ELSE IF parts[13] = NULL THEN "skip"
    ELSE IF ~IsInt(parts[13]) THEN "ValueError"
    ELSE IF IntOf(parts[13]) \notin LocIds THEN "skip"
    ELSE "write"

RowAction_FilterFirst(parts) ==
    IF Len(parts) >= 13 /\ parts[12] = NULL THEN "skip"
    ELSE IF Len(parts) >= 13 /\ IsInt(parts[12]) /\ IntOf(parts[12]) # business_id
    THEN "skip"
    ELSE IF Len(parts) # ReviewWidth THEN "die"
    ELSE IF ~IsInt(parts[12]) THEN "ValueError"
    ELSE IF parts[13] = NULL THEN "skip"
    ELSE IF ~IsInt(parts[13]) THEN "ValueError"
    ELSE IF IntOf(parts[13]) \notin LocIds THEN "skip"
    ELSE "write"

RowAction(parts) ==
    IF Len(parts) # ReviewWidth THEN "die"
    ELSE IF parts[12] = NULL THEN "skip"
    ELSE IF ~IsInt(parts[12]) THEN "ValueError"
    ELSE IF IntOf(parts[12]) # business_id THEN "skip"
    ELSE IF parts[13] = NULL THEN "skip"
    ELSE IF ~IsInt(parts[13]) THEN "ValueError"
    ELSE IF IntOf(parts[13]) \notin LocIds THEN "skip"
    ELSE "write"

(* One pass of the for loop: the file hands over its next line, which joins
   the lines read so far (the progress notice printed after a write changes
   no state) *)
ScanLine ==
    /\ status = "scan"
    /\ Len(file) < MaxReviewLines
    /\ \E line \in ReviewLines :
        /\ file' = Append(file, line)
        /\ pos' = pos + 1
        /\ line_no' = line_no + 1
        /\ LET parts == Split(line, TAB)
               act   == RowAction(parts)
           IN  IF ~in_copy
               THEN /\ in_copy' = StartsWith(line, ReviewsPrefix)
                    /\ UNCHANGED <<handles, counts, exc, status>>
               ELSE IF line = Terminator
               THEN /\ status' = "finally"
                    /\ UNCHANGED <<handles, counts, exc, in_copy>>
               ELSE IF act = "die"
               THEN /\ Raise("SystemExit")
                    /\ UNCHANGED <<handles, counts, in_copy>>
               ELSE IF act = "ValueError"
               THEN /\ Raise("ValueError")
                    /\ UNCHANGED <<handles, counts, in_copy>>
               ELSE IF act = "skip"
               THEN UNCHANGED <<handles, counts, exc, status, in_copy>>
               ELSE /\ WriteRow(parts, IntOf(parts[13]))
                    /\ UNCHANGED <<exc, status, in_copy>>
    /\ UNCHANGED <<arg, ret, expected_table, cols_count, yielded, business_id,
                   locations, normalize_whitespace, keep_newlines, writers, report>>

(* The file has no further line: the for loop ends and the try block
   completes *)
ScanEOF ==
    /\ status = "scan"
    /\ status' = "finally"
    /\ UNCHANGED <<arg, ret, file, expected_table, pos, in_copy, cols_count, yielded,
                   business_id, locations, normalize_whitespace, keep_newlines,
                   handles, writers, counts, line_no, exc, report>>

(* finally: for f, _ in writers.values(): f.close(); then the pending
   exception, if any, goes on *)
Finally ==
    /\ status = "finally"
    /\ handles' = [i \in DOMAIN handles |->
                     IF i \in Range(writers)
                     THEN [handles[i] EXCEPT !.open = FALSE, !.closes = @ + 1]
                     ELSE handles[i]]
    /\ status' = IF exc.kind = "none" THEN "report" ELSE exc.kind
    /\ UNCHANGED <<arg, ret, file, expected_table, pos, in_copy, cols_count, yielded,
                   business_id, locations, normalize_whitespace, keep_newlines,
                   writers, counts, line_no, exc, report>>

(* the lines printed after the try statement *)
Report ==
    /\ status = "report"
    /\ report' = [total |-> SumOver(counts, DOMAIN counts),
                  lines |-> [i \in 1..Len(locations) |->
                               <<locations[i].id, locations[i].name,
                                 counts[locations[i].id]>>]]
    /\ status' = "returned"
    /\ UNCHANGED <<arg, ret, file, expected_table, pos, in_copy, cols_count, yielded,
                   business_id, locations, normalize_whitespace, keep_newlines,
                   handles, writers, counts, line_no, exc>>

Downtown == [id |-> 3, name |-> <<"Down", NL, "town">>, business_id |-> 7]
Uptown == [id |-> 9, name |-> <<"Uptown">>, business_id |-> 7]

LocationLists == {<<Downtown, Uptown>>, <<Uptown>>}

ExportInit ==
    /\ business_id = 7
    /\ locations \in LocationLists
    /\ normalize_whitespace \in BOOLEAN
    /\ keep_newlines \in BOOLEAN
    /\ file = <<>>
    /\ handles = <<>>
    /\ writers = <<>>
    /\ counts = <<>>
    /\ line_no = 0
    /\ exc = NoExc
    /\ report = NoReport
    /\ status = "open_writers"
    /\ arg = <<>>
    /\ ret = NoRet
    /\ IdleReaderVars

ExportNext ==
    \/ OpenWriter
    \/ OpenFails
    \/ BeginScan
    \/ ScanLine
    \/ ScanEOF
    \/ Finally
    \/ Report

SpecExport == ExportInit /\ [][ExportNext]_vars

-----------------------------------------------------------------------------
(* open_writers on lists of two locations whose names range over short
   strings *)

NameAlphabet == {"A", "a", "1", SP, "-"}

LocationNames == SeqsUpTo(NameAlphabet, MaxNameLen)

IdPairs == {<<1, 11>>, <<11, 1>>, <<1, 2>>}

NamedLists ==
    {<<[id |-> ids[1], name |-> n1, business_id |-> 7],
       [id |-> ids[2], name |-> n2, business_id |-> 7]>> :
        ids \in IdPairs, n1 \in LocationNames, n2 \in LocationNames}

OpenInit ==
    /\ business_id = 7
    /\ locations \in NamedLists
    /\ normalize_whitespace = TRUE
    /\ keep_newlines = FALSE
    /\ file = <<>>
    /\ handles = <<>>
    /\ writers = <<>>
    /\ counts = <<>>
    /\ line_no = 0
    /\ exc = NoExc
    /\ report = NoReport
    /\ status = "open_writers"
    /\ arg = <<>>
    /\ ret = NoRet
    /\ IdleReaderVars

OpenNext ==
    \/ OpenWriter
    \/ OpenFails
    \/ BeginScan

SpecOpen == OpenInit /\ [][OpenNext]_vars

-----------------------------------------------------------------------------
(* main: the three input files, the two look-ups, then export_reviews *)

BusinessFiles ==
    {<<Hdr(BusinessTable, 3), Row(<< <<"7">>, <<"u">>, <<"Acme">> >>),
       Row(<< <<"6">>, <<"u">>, <<"Acme", SP, "Foods">> >>), Terminator>>,
     <<Hdr(BusinessTable, 3), Row(<< <<"7">>, <<"u">>, <<"Acme">> >>),
       Row(<< <<"8">>, <<"u">>, <<"Acme">> >>), Terminator>>,
     <<Hdr(BusinessTable, 3), Row(<< <<"6">>, <<"u">>, <<"Acme", SP, "Foods">> >>),
       Terminator>>,
     <<Hdr(BusinessTable, 3), Row(<< <<"4">>, <<"u">> >>), Terminator>>,
     <<Hdr(BusinessTable, 3), Row(<< <<"7">>, <<"u">>, <<"Acme">> >>)>>}

LocationFiles ==
    {<<Hdr(LocationTable, 4),
       Row(<< <<"9">>, <<"u">>, <<"Uptown">>, <<"7">> >>),
       Row(<< <<"3">>, <<"u">>, <<"Down", BS, "n", "town">>, <<"7">> >>),
       Row(<< <<"4">>, <<"u">>, <<"Else">>, <<"8">> >>), Terminator>>,
     <<Hdr(LocationTable, 4),
       Row(<< <<"4">>, <<"u">>, <<"Else">>, <<"8">> >>), Terminator>>,
     <<Row(<< <<"9">>, <<"u">>, <<"Uptown">>, <<"7">> >>), Terminator>>,
     <<Hdr(LocationTable, 4),
       Row(<< <<"9">>, <<"u">>, <<"Uptown">>, <<"7">> >>),
       Row(<< <<"5">>, <<"u">>, <<"Nowhere">>, NULL >>), Terminator>>}

(* the command line and the input directory of a run: which of
   BUSINESS_SQL, LOCATION_SQL, REVIEWS_SQL exist, and what the first two hold *)
MainArgs ==
    [business_name : {<<"Acme">>},
     no_normalize_whitespace : BOOLEAN,
     keep_newlines : BOOLEAN,
     exists : [1..3 -> BOOLEAN],
     businesses : BusinessFiles,
     locations : LocationFiles]

MainInit ==
    /\ arg \in MainArgs
    /\ ret = NoRet
    /\ file = <<>>
    /\ status = "main"
    /\ IdleReaderVars
    /\ IdleExport

(* for path in (...): if not path.exists(): die(...) *)
MainCheckInputs ==
    /\ status = "main"
    /\ status' = IF \E i \in 1..3 : ~arg.exists[i]
                 THEN "die_missing_input"
                 ELSE "find_business"
    /\ UNCHANGED <<arg, ret, file, expected_table, pos, in_copy, cols_count, yielded,
                   exportVars>>

(* biz = find_business_id_by_name(args.business_name) *)
MainFindBusiness ==
    /\ status = "find_business"
    /\ LET r == find_business_id_by_name(arg.businesses, arg.business_name)
       IN  /\ ret' = [fn |-> "find_business_id_by_name", keep |-> FALSE,
                      value |-> r.value]
           /\ status' = IF r.status = "returned" THEN "load_locations" ELSE r.status
           /\ business_id' = IF r.status = "returned" THEN r.value.id ELSE business_id
    /\ UNCHANGED <<arg, file, expected_table, pos, in_copy, cols_count, yielded,
                   locations, normalize_whitespace, keep_newlines, handles, writers,
                   counts, line_no, exc, report>>

(* locs = load_locations_for_business(biz.id) *)
MainLoadLocations ==
    /\ status = "load_locations"
    /\ LET r == load_locations_for_business(arg.locations, business_id)
       IN  /\ ret' = [fn |-> "load_locations_for_business", keep |-> FALSE,
                      value |-> r.value]
           /\ status' = IF r.status = "returned" THEN "check_locations" ELSE r.status
           /\ locations' = IF r.status = "returned" THEN r.value ELSE locations
    /\ UNCHANGED <<arg, file, expected_table, pos, in_copy, cols_count, yielded,
                   business_id, normalize_whitespace, keep_newlines, handles, writers,
                   counts, line_no, exc, report>>

MainCallExport_NoCheck ==
    /\ status = "check_locations"
    /\ normalize_whitespace' = ~arg.no_normalize_whitespace
    /\ keep_newlines' = arg.keep_newlines
    /\ status' = "open_writers"
    /\ UNCHANGED <<arg, ret, file, expected_table, pos, in_copy, cols_count, yielded,
                   business_id, locations, handles, writers, counts, line_no, exc,
                   report>>

(* if not locs: die(...); otherwise the flags are computed, the summary is
   printed and export_reviews is called *)
MainCallExport ==
    /\ status = "check_locations"
    /\ IF locations = <<>>
       THEN /\ status' = "die_no_locations"
            /\ UNCHANGED <<normalize_whitespace, keep_newlines>>
       ELSE /\ normalize_whitespace' = ~arg.no_normalize_whitespace
            /\ keep_newlines' = arg.keep_newlines
            /\ status' = "open_writers"
    /\ UNCHANGED <<arg, ret, file, expected_table, pos, in_copy, cols_count, yielded,
                   business_id, locations, handles, writers, counts, line_no, exc,
                   report>>

(* return 0 *)
MainReturn ==
    /\ status = "returned"
    /\ status' = "exit_0"
    /\ UNCHANGED <<arg, ret, file, expected_table, pos, in_copy, cols_count, yielded,
                   exportVars>>

MainNext ==
    \/ MainCheckInputs
    \/ MainFindBusiness
    \/ MainLoadLocations
    \/ MainCallExport
    \/ OpenWriter
    \/ OpenFails
    \/ BeginScan
    \/ ScanLine
    \/ ScanEOF
    \/ Finally
    \/ Report
    \/ MainReturn

SpecMain == MainInit /\ [][MainNext]_vars

-----------------------------------------------------------------------------
(* What the claims about the export speak of, stated on the reviews fragment *)

ReviewHeaderLine == Hdr(ReviewsTable, ReviewWidth)

ReviewHeaders == {h \in 1..Len(file) : file[h] = ReviewHeaderLine}

ReviewStart == CHOOSE h \in ReviewHeaders : \A g \in ReviewHeaders : h <= g

(* line k lies inside the reviews block: after the header, before the first
   terminator *)
InBlock(k) ==
    /\ ReviewHeaders # {}
    /\ k > ReviewStart
    /\ k <= Len(file)
    /\ \A m \in (ReviewStart + 1)..k : file[m] # Terminator

ReviewTerms ==
    {t \in 1..Len(file) : ReviewHeaders # {} /\ t > ReviewStart /\ file[t] = Terminator}

(* the fields and the field count of each line of the fragment, computed
   once *)
ReviewFields == [line \in ReviewLines |-> Split(line, TAB)]

ReviewWidths == [line \in ReviewLines |-> NumFields(line)]

RField(line, n) == ReviewFields[line][n]

Malformed(line) == ReviewWidths[line] # ReviewWidth

BadNumber(fld) == fld # NULL /\ ~IsInt(fld)

BusinessPasses(line) ==
    /\ RField(line, 12) # NULL
    /\ IsInt(RField(line, 12))
    /\ IntOf(RField(line, 12)) = business_id

(* a well-shaped line on which int() raises *)
RaisesValueError(line) ==
    /\ ~Malformed(line)
    /\ \/ BadNumber(RField(line, 12))
       \/ BusinessPasses(line) /\ BadNumber(RField(line, 13))

Stops(line) == Malformed(line) \/ RaisesValueError(line)

(* line k is a row of the block that the scan has examined and not failed on *)
Examined(k) ==
    /\ k <= pos
    /\ InBlock(k)
    /\ \A m \in (ReviewStart + 1)..k : ~Stops(file[m])

PassesFor(line, l) ==
    /\ BusinessPasses(line)
    /\ RField(line, 13) # NULL
    /\ IsInt(RField(line, 13))
    /\ IntOf(RField(line, 13)) = l

(* location id and review uid of the rows among the first k lines that pass
   both filters for location l, in file order *)
RECURSIVE AcceptedUpTo(_, _)
AcceptedUpTo(k, l) ==
    IF k = 0 THEN <<>>
    ELSE IF Examined(k) /\ PassesFor(file[k], l)
         THEN Append(AcceptedUpTo(k - 1, l), <<l, RField(file[k], 2)>>)
         ELSE AcceptedUpTo(k - 1, l)

(* location id and review uid of the data rows of an output (its rows after
   the header row) *)
DataRows(h) == [i \in 1..(Len(h.rows) - 1) |-> <<h.rows[i + 1][1], h.rows[i + 1][3]>>]

(* C1: every data row in the output of location l comes from a review row
   whose business id is non-NULL and the target's and whose location id is
   non-NULL and l; a row failing either filter is written to no output; every
   examined row passing both is written to the output of its location. *)
C1_RowsRoutedByFilters ==
    \A i \in DOMAIN handles :
        /\ handles[i].loc \in LocIds
        /\ DataRows(handles[i]) = AcceptedUpTo(pos, handles[i].loc)

C1_Witness ==
    /\ status = "scan"
    /\ pos = 3
    /\ Examined(2)
    /\ Examined(3)
    /\ PassesFor(file[2], 9)
    /\ RField(file[3], 12) = <<"8">>
    /\ \E i \in DOMAIN handles : handles[i].loc = 9 /\ Len(handles[i].rows) = 2
    /\ \E i \in DOMAIN handles : handles[i].loc = 3 /\ Len(handles[i].rows) = 1

Exited == status \in {"returned", "SystemExit", "ValueError", "OSError"}

(* C2: every output resource the export opened is closed exactly once by the
   time export_reviews exits, on every exit path, a failure while the outputs
   are still being opened included. *)
C2_ClosedExactlyOnce ==
    Exited => \A i \in DOMAIN handles : ~handles[i].open /\ handles[i].closes = 1

(* C5: a run whose reviews fragment has no header for the reviews table, or
   has the header but no terminator line, does not complete normally and
   reports no successful export. *)
C5_MissingBlockIsFatal ==
    status \in {"report", "returned"} => (ReviewHeaders # {} /\ ReviewTerms # {})

MalformedInBlock == {k \in 1..Len(file) : InBlock(k) /\ Malformed(file[k])}

FirstMalformed == CHOOSE k \in MalformedInBlock : \A m \in MalformedInBlock : k <= m

(* no int() failure on a line of the block before line k *)
NoValueErrorBefore(k) ==
    \A m \in (ReviewStart + 1)..(k - 1) : ~RaisesValueError(file[m])

(* C6: the first line inside the reviews block whose field count is not 17 is
   fatal and the error names its 1-based line number; the check precedes the
   business and location filters; no later line is read or written; the rows
   written before it stay in their outputs, and all outputs are closed. *)
C6_FirstMalformedRowIsFatal ==
    /\ (exc.kind = "SystemExit" =>
          /\ MalformedInBlock # {}
          /\ exc.line = FirstMalformed)
    /\ ((MalformedInBlock # {} /\ NoValueErrorBefore(FirstMalformed)) =>
          /\ pos <= FirstMalformed
          /\ (pos = FirstMalformed =>
                /\ exc = [kind |-> "SystemExit", line |-> FirstMalformed]
                /\ status \in {"finally", "SystemExit"}
                /\ \A i \in DOMAIN handles :
                      DataRows(handles[i])
                        = AcceptedUpTo(FirstMalformed - 1, handles[i].loc)
                /\ (status = "SystemExit" =>
                      \A i \in DOMAIN handles :
                          ~handles[i].open /\ handles[i].closes = 1)))

C6_Witness ==
    /\ status = "SystemExit"
    /\ exc.line = 3
    /\ pos = 3
    /\ Examined(2)
    /\ BusinessPasses(file[2])
    /\ FirstMalformed = 3
    /\ ReviewWidths[file[3]] = ReviewWidth - 1
    /\ RField(file[3], 12) = <<"8">>
    /\ \E i \in DOMAIN handles : Len(handles[i].rows) = 2 /\ ~handles[i].open

-----------------------------------------------------------------------------
(* Cells of the written rows *)

(* the text cells of a row (the first cell is the integer location id) *)
TextCells(row) == {row[c] : c \in 2..Len(row)}

SingleLine(cell) == \A x \in DOMAIN cell : cell[x] \notin {NL, CR}

(* C11: when keep_newlines is false, no cell of any data row written to any
   output contains a newline or carriage-return character, for every column
   (location_name included) and for both values of normalize_whitespace. *)
C11_CellsSingleLine ==
    ~keep_newlines =>
        \A i \in DOMAIN handles :
            \A r \in 2..Len(handles[i].rows) :
                \A cell \in TextCells(handles[i].rows[r]) : SingleLine(cell)

-----------------------------------------------------------------------------
(* Counters and header rows *)

Scanning == status \in {"scan", "finally", "report", "returned", "SystemExit",
                        "ValueError"}

(* the output of location l *)
OutputOf(l) == handles[writers[l]]

(* C12: at every point of the export the counter of each location equals the
   number of data rows written so far to that location's output; the total
   reported at the end is the sum of the counters, which is the number of
   review rows that passed both filters; and the report holds one final count
   for every location passed in, those with no accepted row included. *)
C12_CountersMatchRows ==
    /\ Scanning =>
          /\ DOMAIN counts = LocIds
          /\ \A l \in LocIds : counts[l] = Len(OutputOf(l).rows) - 1
    /\ status = "returned" =>
          /\ report.total = SumOver(counts, LocIds)
          /\ report.total
               = SumOver([l \in LocIds |-> Len(AcceptedUpTo(pos, l))], LocIds)
          /\ Len(report.lines) = Len(locations)
          /\ \A i \in 1..Len(locations) :
                report.lines[i] = <<locations[i].id, locations[i].name,
                                    Len(OutputOf(locations[i].id).rows) - 1>>

C12_Witness ==
    /\ status = "returned"
    /\ report.total = 2
    /\ Len(report.lines) = 2
    /\ \E i \in 1..2 : report.lines[i][3] = 0
    /\ \E i \in 1..2 : report.lines[i][3] = 2

(* C13: every location's output is opened and receives the ten-column header
   row before the first line of the reviews fragment is read; in every output
   the header is the first row and precedes every data row; a location with
   no accepted review ends with an output holding exactly the header row. *)
C13_HeaderBeforeAnyRead ==
    /\ (Scanning \/ pos > 0 \/ line_no > 0) =>
          /\ Len(handles) = Len(locations)
          /\ \A i \in 1..Len(locations) :
                /\ locations[i].id \in DOMAIN writers
                /\ Len(OutputOf(locations[i].id).rows) >= 1
    /\ \A i \in DOMAIN handles :
          /\ Len(handles[i].rows) >= 1
          /\ handles[i].rows[1] = FieldNames
          /\ Len(FieldNames) = 10
          /\ \A r \in 2..Len(handles[i].rows) : handles[i].rows[r][1] = handles[i].loc
    /\ status = "returned" =>
          \A l \in LocIds :
              AcceptedUpTo(pos, l) = <<>> => OutputOf(l).rows = <<FieldNames>>

C13_Witness ==
    /\ status = "returned"
    /\ pos = 3
    /\ Len(locations) = 2
    /\ OutputOf(3).rows = <<FieldNames>>
    /\ Len(OutputOf(9).rows) = 2
    /\ ~OutputOf(3).open

-----------------------------------------------------------------------------
(* Names of the output files *)

(* C14: the output filename is a function of the location id and name only
   and is injective in the id: two locations with distinct ids get different
   filenames from open_writers whatever their names are, names that slugify
   to the same string, to the placeholder or to a string beginning with
   digits included. *)
C14_FilenamesDistinct ==
    /\ \A i \in DOMAIN handles : handles[i].path = filename(locations[i])
    /\ \A i, j \in DOMAIN handles :
          handles[i].loc # handles[j].loc => handles[i].path # handles[j].path

C14_Witness ==
    /\ Len(handles) = 2
    /\ handles[1].loc = 1
    /\ handles[2].loc = 11
    /\ slugify(locations[1].name) = <<"1", "a">>
    /\ slugify(locations[2].name) = <<"a">>
    /\ handles[1].path = <<"salsamenteria__loc_", "1", "_", "_", "1", "a", ".csv">>
    /\ handles[2].path = <<"salsamenteria__loc_", "1", "1", "_", "_", "a", ".csv">>

-----------------------------------------------------------------------------
(* NULL foreign keys *)

(* the rows of the locations block whose business-id field is the NULL
   marker *)
NullOwnerRows ==
    IF BlockHeaders(file, LocationTable) = {} \/ BlockTerms(file, LocationTable) = {}
    THEN {}
    ELSE {k \in BlockRows(file, LocationTable) :
            NumFields(file[k]) = 4 /\ FieldOf(file[k], 4) = NULL}

RECURSIVE Without(_, _, _)
Without(f, drop, k) ==
    IF k > Len(f) THEN <<>>
    ELSE IF k \in drop THEN Without(f, drop, k + 1)
    ELSE <<f[k]>> \o Without(f, drop, k + 1)

(* C15: a NULL foreign key is never an error: a location row whose
   business-id field is the NULL marker (like a review row with a NULL
   business or location id) is silently excluded, raises no error, and the
   other rows are processed as if the NULL row were absent. *)
C15_NullForeignKeyIsNoError ==
    ret.fn = "load_locations_for_business" =>
        LET clean == load_locations_for_business(Without(file, NullOwnerRows, 1), arg)
        IN  /\ status = clean.status
            /\ ret.value = clean.value

-----------------------------------------------------------------------------
(* The export's own pass against the bulk-block reader *)

(* the well-shaped rows of the block that the pass of export_reviews has gone
   through, in file order *)
PassedRows ==
    LET n == Cardinality({k \in 1..pos : InBlock(k) /\ ~Malformed(file[k])})
    IN  [i \in 1..n |-> ReviewFields[file[ReviewStart + i]]]

PassEnded == status \in {"report", "returned", "SystemExit"}

(* C16: the pass of export_reviews over the reviews fragment behaves as
   iter_copy_rows(REVIEWS_SQL, "reviews_review") followed by the 17-field
   check does on the same file: the same sequence of data rows, and a normal
   end or a fatal error in the same cases. *)
C16_PassMatchesReader ==
    PassEnded =>
        LET it == iter_copy_rows(file, ReviewsTable)
        IN  /\ it.rows = PassedRows
            /\ (status = "SystemExit")
                 = \/ it.status # "returned"
                   \/ \E i \in 1..Len(it.rows) : Len(it.rows[i]) # ReviewWidth

-----------------------------------------------------------------------------
(* The reader before its header *)

HeaderSeen == \E k \in 1..pos : IsHeaderFor(file[k], expected_table)

(* C17: before a header with exactly the requested table name is seen,
   iter_copy_rows yields no row and raises no row-shape error: headers of
   other tables (names having the requested one as a prefix or suffix
   included), the data lines of their blocks whatever their field count and
   their terminators are skipped, and a terminator line before the matching
   header does not end the scan. *)
C17_NothingBeforeExactHeader ==
    ~HeaderSeen =>
        /\ yielded = <<>>
        /\ ~in_copy
        /\ status \in {"reading", "die_notfound"}
        /\ (status = "die_notfound" => pos = Len(file))

C17_Witness ==
    /\ expected_table = LocationTable
    /\ Len(file) = 4
    /\ file[1] = Hdr(OtherTable, 1)
    /\ file[2] = <<"a", TAB, "b">>
    /\ file[3] = Terminator
    /\ IsHeaderFor(file[4], expected_table)
    /\ pos = 3
    /\ status = "reading"
    /\ yielded = <<>>

-----------------------------------------------------------------------------
(* NULL fields of the exported rows *)

(* the exported positions of a review row (0-based, as in the code) and the
   cell of the written row each one goes to *)
ExportedPositions == 1..8

CellOfPosition == <<3, 6, 8, 9, 10, 5, 7, 4>>

(* the line of the fragment a written row was made from, found by its uid *)
SourceOf(row) ==
    CHOOSE line \in ReviewLines :
        ReviewWidths[line] = ReviewWidth /\ RField(line, 2) = row[3]

EscapedBackslashN == <<BS, BS, "N">>

(* C18: for every exported review field the NULL test is made on the raw
   field before escape decoding: a raw field that is exactly backslash-N is
   exported as the empty string, and a raw field that is an escaped backslash
   followed by N is not NULL and is exported as the text backslash-N. *)
C18_NullTestedOnRawField ==
    \A i \in DOMAIN handles :
        \A r \in 2..Len(handles[i].rows) :
            LET row == handles[i].rows[r]
                src == SourceOf(row)
            IN  \A p \in ExportedPositions :
                    /\ RField(src, p + 1) = NULL => row[CellOfPosition[p]] = <<>>
                    /\ RField(src, p + 1) = EscapedBackslashN
                          => row[CellOfPosition[p]] = <<BS, "N">>

C18_Witness ==
    \E i \in DOMAIN handles :
        /\ Len(handles[i].rows) = 2
        /\ handles[i].rows[2][3] = <<"r9">>
        /\ RField(SourceOf(handles[i].rows[2]), 5) = NULL
        /\ handles[i].rows[2][9] = <<>>
        /\ RField(SourceOf(handles[i].rows[2]), 3) = EscapedBackslashN
        /\ handles[i].rows[2][6] = <<BS, "N">>

-----------------------------------------------------------------------------
(* What main requires before it opens an output *)

(* the rows of the businesses block of f whose decoded name is the one asked
   for *)
MatchingRows(f, name) ==
    IF ~BlockReadable(f, BusinessTable) THEN {}
    ELSE {k \in BlockRows(f, BusinessTable) :
            decode_copy_text(FieldOf(f[k], 3)) = name}

(* the rows of the locations block of f owned by business b *)
OwnerRows(f, b) ==
    IF ~BlockReadable(f, LocationTable) THEN {}
    ELSE {k \in BlockRows(f, LocationTable) :
            IsInt(FieldOf(f[k], 4)) /\ IntOf(FieldOf(f[k], 4)) = b}

(* whether the name picks exactly one business of b and that business owns a
   location of l, for each pair of input files, computed once *)
Resolves ==
    [b \in BusinessFiles, l \in LocationFiles |->
        /\ Cardinality(MatchingRows(b, <<"Acme">>)) = 1
        /\ \E k \in MatchingRows(b, <<"Acme">>) :
              OwnerRows(l, IntOf(FieldOf(b[k], 1))) # {}]

InputsResolve ==
    /\ \A i \in 1..3 : arg.exists[i]
    /\ arg.business_name = <<"Acme">>
    /\ Resolves[arg.businesses, arg.locations]

OpenWritersReached ==
    \/ status \in {"open_writers", "OSError", "scan", "finally", "report",
                    "returned", "exit_0"}
    \/ handles # <<>>
    \/ writers # <<>>

FatalBeforeExport ==
    {"die_missing_input", "die_business_not_found", "die_business_multiple",
     "die_notfound", "die_cols", "die_unterminated", "die_no_locations",
     "ValueError", "IndexError"}

MainEnded == status \notin {"main", "find_business", "load_locations", "check_locations"}

(* C19: in a run of main no output file is opened or written unless the
   three input fragments exist, the business name resolves to exactly one
   business and that business owns at least one location; a missing input, a
   not-found or ambiguous business, a malformed businesses or locations block
   or an empty location list ends the run with a fatal error before
   open_writers is reached. *)
C19_NoOutputUnlessResolved ==
    /\ OpenWritersReached => InputsResolve
    /\ (~InputsResolve /\ MainEnded) =>
          /\ status \in FatalBeforeExport
          /\ handles = <<>>
          /\ writers = <<>>
          /\ file = <<>>

C19_Witness ==
    /\ status = "die_no_locations"
    /\ \A i \in 1..3 : arg.exists[i]
    /\ business_id = 7
    /\ ~Resolves[arg.businesses, arg.locations]
    /\ handles = <<>>

-----------------------------------------------------------------------------
(* Order and multiplicity of the written rows *)

(* the step reads a line of the block that passes both filters for
   location l *)
AcceptsFor(l) ==
    /\ pos' = pos + 1
    /\ (Examined(pos))'
    /\ PassesFor(file'[pos'], l)

(* C20: each accepted review row is written exactly once and the data rows
   of every output keep the relative order of their source rows: a step that
   reads an accepted row appends that one row to the output of its location,
   and no other step adds, removes, moves or rewrites a row of an output. *)
C20_AcceptedRowsAppendedOnce ==
    [][\A i \in DOMAIN handles :
          /\ i \in DOMAIN handles'
          /\ LET old == handles[i].rows
                 new == handles'[i].rows
             IN  IF AcceptsFor(handles[i].loc)
                 THEN /\ Len(new) = Len(old) + 1
                      /\ SubSeq(new, 1, Len(old)) = old
                      /\ new[Len(new)][1] = handles[i].loc
                      /\ new[Len(new)][3] = RField(file'[pos'], 2)
                 ELSE new = old]_vars

C20_Witness ==
    /\ status = "scan"
    /\ pos = 3
    /\ Examined(2)
    /\ Examined(3)
    /\ PassesFor(file[2], 9)
    /\ PassesFor(file[3], 9)
    /\ RField(file[2], 2) # RField(file[3], 2)
    /\ \E i \in DOMAIN handles :
          /\ handles[i].loc = 9
          /\ DataRows(handles[i])
               = << <<9, RField(file[2], 2)>>, <<9, RField(file[3], 2)>> >>

====
